---- MODULE Spec2Model ----
(***************************************************************************)
(* A model of trans_helper (zusitools): the Zusi and PO codecs, the        *)
(* translation lookup with its ambiguity rule, and the conversion runs of  *)
(* TranslationHelper.main.                                                 *)
(*                                                                         *)
(* Text is modelled as a sequence of one-character strings, so that        *)
(* stripping, slicing, searching and concatenation are computed the way    *)
(* the Python code computes them.  Positions returned by find are Python   *)
(* positions (0-based); -1 means "not found".                              *)
(***************************************************************************)
EXTENDS Integers, Sequences, FiniteSets, TLC

----------------------------------------------------------------------------
(* Python string primitives                                                *)

Min(S) == CHOOSE x \in S : \A y \in S : x <= y

Max(S) == CHOOSE x \in S : \A y \in S : x >= y

\* number of leading characters of s that belong to cs
LeadCount(s, cs) ==
  IF \A i \in 1..Len(s) : s[i] \in cs THEN Len(s)
  ELSE Min({i \in 1..Len(s) : s[i] \notin cs}) - 1

\* number of trailing characters of s that belong to cs
TrailCount(s, cs) ==
  IF \A i \in 1..Len(s) : s[i] \in cs THEN Len(s)
  ELSE Len(s) - Max({i \in 1..Len(s) : s[i] \notin cs})

\* s.lstrip(cs)
lstrip(s, cs) == SubSeq(s, LeadCount(s, cs) + 1, Len(s))

\* s.rstrip(cs)
rstrip(s, cs) == SubSeq(s, 1, Len(s) - TrailCount(s, cs))

\* s.strip(cs)
strip(s, cs) == rstrip(lstrip(s, cs), cs)

\* s[i:] with i >= 0
SliceFrom(s, i) == SubSeq(s, i + 1, Len(s))

\* s[i:-1] with i >= 0
SliceInner(s, i) == SubSeq(s, i + 1, Len(s) - 1)

\* sub occurs in s at Python position i
OccursAt(s, sub, i) ==
  /\ i >= 0
  /\ i + Len(sub) <= Len(s)
  /\ SubSeq(s, i + 1, i + Len(sub)) = sub

\* s.find(sub, start)
find(s, sub, start) ==
  LET hits == {i \in start..Len(s) : OccursAt(s, sub, i)}
  IN  IF hits = {} THEN -1 ELSE Min(hits)

\* sub in s
contains(s, sub) == find(s, sub, 0) # -1

\* s.startswith(prefix)
startswith(s, prefix) == OccursAt(s, prefix, 0)

\* n * " "
Spaces(n) == [i \in 1..n |-> " "]

----------------------------------------------------------------------------
(* Literals of the source                                                  *)

\* " = ", the record separator of a Zusi line
SepEq == <<" ", "=", " ">>

\* linesep = '\r\n'
linesep == <<"\r", "\n">>

CRLF == {"\r", "\n"}

Streckenvorschau ==
  <<"S", "t", "r", "e", "c", "k", "e", "n", "v", "o", "r", "s", "c", "h", "a", "u">>

Caption == <<"C", "a", "p", "t", "i", "o", "n">>

Text == <<"T", "e", "x", "t">>

----------------------------------------------------------------------------
(* TranslationEntry                                                        *)
(*                                                                         *)
(* An entry is a Python object: its fields are the attributes the          *)
(* constructor sets, plus src_value, an attribute that only read_from_po   *)
(* adds; NoAttribute stands for "the object has no such attribute".        *)
(* The quote flags hold the Python value that was stored ('' by default,   *)
(* True/False from the Zusi parser), named by a string.                    *)

NoAttribute == <<"<no attribute>">>

PyTrue == "True"

PyFalse == "False"

PyEmptyStr == "''"

PyZero == "0"

PyBool(b) == IF b THEN PyTrue ELSE PyFalse

\* bool(v) of a stored flag
Truthy(v) == v = PyTrue

\* the context False that get_empty_string_entry passes positionally
FalseContext == <<"False">>

TranslationEntry(key, value, source_value, context, leftquote, rightquote, leftspaces, rightspaces) ==
  [key |-> key, value |-> value, source_value |-> source_value,
   context |-> context, leftquote |-> leftquote, rightquote |-> rightquote,
   leftspaces |-> leftspaces, rightspaces |-> rightspaces,
   src_value |-> NoAttribute]

\* TranslationEntry(key): every other field at its default
DefaultEntry(key) ==
  TranslationEntry(key, <<>>, <<>>, <<>>, PyEmptyStr, PyEmptyStr, 0, 0)

\* TranslationEntry("", "", "", False, False, 0, 0)
get_empty_string_entry ==
  TranslationEntry(<<>>, <<>>, <<>>, FalseContext, PyFalse, PyZero, 0, 0)

----------------------------------------------------------------------------
(* TranslationFile                                                         *)
(*                                                                         *)
(* objs is the file's heap: the entry objects in allocation order.  A      *)
(* reference is an index into objs; entries maps a key to a set of         *)
(* references (a Python set of objects without __eq__/__hash__ is a set    *)
(* of identities), entries_in_order is the list of references.             *)

NewTranslationFile == [objs |-> <<>>, entries |-> <<>>, entries_in_order |-> <<>>]

\* key in file.entries
HasKey(file, key) == key \in DOMAIN file.entries

\* the entry objects stored under a key
EntriesOf(file, key) == IF HasKey(file, key) THEN file.entries[key] ELSE {}

append(file, entry) ==
  LET ref == Len(file.objs) + 1
  IN  [objs |-> Append(file.objs, entry),
       entries |-> [k \in (DOMAIN file.entries) \cup {entry.key} |->
                      IF k = entry.key
                      THEN EntriesOf(file, k) \cup {ref}
                      ELSE file.entries[k]],
       entries_in_order |-> Append(file.entries_in_order, ref)]

\* the entries of a file in iteration order (__iter__)
InOrder(file) ==
  [i \in 1..Len(file.entries_in_order) |-> file.objs[file.entries_in_order[i]]]

----------------------------------------------------------------------------
(* Zusi codec: TranslationFile.read_from_zusi and the record writer        *)

\* value.strip("'")
StripQuotes(value) == strip(value, {"'"})

\* len(value) > 0 and value[0] == "'"
LeftQuote(value) == Len(value) > 0 /\ value[1] = "'"

\* len(value) > 1 and value[-1] == "'"
RightQuote(value) == Len(value) > 1 /\ value[Len(value)] = "'"

RECURSIVE KeepAt(_, _, _)
\* the characters of s at the positions in keep, from position i on
KeepAt(s, keep, i) ==
  IF i > Len(s) THEN <<>>
  ELSE (IF i \in keep THEN <<s[i]>> ELSE <<>>) \o KeepAt(s, keep, i + 1)

\* re.sub(r'(?<!&)&(?!&)', '', value)
StripShortcuts(value) ==
  LET single(i) == /\ value[i] = "&"
                   /\ (i = 1 \/ value[i - 1] # "&")
                   /\ (i = Len(value) \/ value[i + 1] # "&")
  IN  KeepAt(value, {i \in 1..Len(value) : ~single(i)}, 1)

\* contexts[key], '' on KeyError
ContextOf(contexts, key) ==
  IF key \in DOMAIN contexts THEN contexts[key] ELSE <<>>

\* One iteration of the loop of read_from_zusi: the entries (none or one)
\* that the line adds.
ParseZusiLine(line, contexts, strip_shortcuts) ==
  LET t == strip(line, CRLF)
      p == find(t, SepEq, 0)
  IN  IF p = -1 THEN <<>>
      ELSE LET key         == SubSeq(t, 1, p)
               raw         == SliceFrom(t, p + Len(SepEq))
               leftspaces  == Len(raw) - Len(lstrip(raw, {" "}))
               rightspaces == Len(raw) - Len(rstrip(raw, {" "}))
               v1          == strip(raw, {" "})
               v2          == StripQuotes(v1)
               v3          == IF strip_shortcuts
                                 /\ (contains(key, Caption) \/ contains(key, Text))
                              THEN StripShortcuts(v2) ELSE v2
           IN  <<TranslationEntry(key, v3, v3, ContextOf(contexts, key),
                                  PyBool(LeftQuote(v1)), PyBool(RightQuote(v1)),
                                  leftspaces, rightspaces)>>

RECURSIVE read_from_zusi(_, _, _, _)
\* file.read_from_zusi(f, contexts, strip_shortcuts), f a sequence of lines
read_from_zusi(file, f, contexts, strip_shortcuts) ==
  IF f = <<>> THEN file
  ELSE LET new == ParseZusiLine(Head(f), contexts, strip_shortcuts)
       IN  read_from_zusi(IF new = <<>> THEN file ELSE append(file, new[1]),
                          Tail(f), contexts, strip_shortcuts)

\* the padding the po2zusi writer puts in front of the value
\* the padding as it is when every key gets its leading spaces
WriterPadding_Always(master_entry) == Spaces(master_entry.leftspaces)

WriterPadding(master_entry) ==
  IF contains(master_entry.key, Streckenvorschau)
  THEN Spaces(master_entry.leftspaces) ELSE <<>>

\* ZusiRecord with the quotes and both paddings put back around the value
ZusiRecord_Requoted(master_entry, value) ==
  master_entry.key \o SepEq \o Spaces(master_entry.leftspaces)
    \o (IF Truthy(master_entry.leftquote) THEN <<"'">> ELSE <<>>)
    \o value
    \o (IF Truthy(master_entry.rightquote) THEN <<"'">> ELSE <<>>)
    \o Spaces(master_entry.rightspaces) \o linesep

\* "%s = %s%s" % (key, padding, value) + linesep
ZusiRecord(master_entry, value) ==
  master_entry.key \o SepEq \o WriterPadding(master_entry) \o value \o linesep

----------------------------------------------------------------------------
(* PO codec: escaping, the lines of a PO block, read_from_po               *)

Quote == "\""

Backslash == "\\"

RECURSIVE escape_po(_)
\* string.replace('"', r'\"')
escape_po(string) ==
  IF string = <<>> THEN <<>>
  ELSE (IF Head(string) = Quote THEN <<Backslash, Quote>> ELSE <<Head(string)>>)
         \o escape_po(Tail(string))

RECURSIVE unescape_po(_)
\* string.replace(r'\"', '"')
unescape_po(string) ==
  IF string = <<>> THEN <<>>
  ELSE IF startswith(string, <<Backslash, Quote>>)
       THEN <<Quote>> \o unescape_po(SliceFrom(string, 2))
       ELSE <<Head(string)>> \o unescape_po(Tail(string))

Hash == <<"#">>

SrcComment == <<"#", ".", " ", ":", "s", "r", "c", ":">>

KwMsgid == <<"m", "s", "g", "i", "d">>

KwMsgctxt == <<"m", "s", "g", "c", "t", "x", "t">>

KwMsgstr == <<"m", "s", "g", "s", "t", "r">>

\* "#. :src: %s" % key
SrcLine(key) == SrcComment \o <<" ">> \o key

\* 'msgctxt "%s"' % escape_po(context)
MsgctxtLine(context) == KwMsgctxt \o <<" ", Quote>> \o escape_po(context) \o <<Quote>>

\* 'msgid "%s"' % escape_po(value)
MsgidLine(value) == KwMsgid \o <<" ", Quote>> \o escape_po(value) \o <<Quote>>

\* 'msgstr "%s"' % escape_po(value)
MsgstrLine(value) == KwMsgstr \o <<" ", Quote>> \o escape_po(value) \o <<Quote>>

\* a continuation line: a quoted literal on a line of its own
ContinuationLine(string) == <<Quote>> \o escape_po(string) \o <<Quote>>

MODE_MSGID == 1

MODE_MSGSTR == 2

MODE_MSGCTXT == 3

\* The locals of read_from_po before the first line: self is the file
\* being filled, entries_under_construction a set of references into it.
PoStart(self) ==
  [self |-> self, current_mode |-> 0, current_msgid |-> <<>>,
   current_context |-> <<>>, current_value |-> <<>>,
   entries_under_construction |-> {}]

\* for entry in entries_under_construction: entry.<field> = ...
SetOnPending(st, with_src_value) ==
  [st EXCEPT !.self.objs =
     [r \in DOMAIN @ |->
        IF r \in st.entries_under_construction
        THEN [@[r] EXCEPT !.context = st.current_context,
                          !.value = st.current_value,
                          !.src_value = IF with_src_value
                                        THEN st.current_msgid ELSE @]
        ELSE @[r]]]

\* PoReset without the reset of current_context
PoReset_KeepsContext(st) ==
  [st EXCEPT !.entries_under_construction = {},
             !.current_mode = 0,
             !.current_msgid = <<>>,
             !.current_value = <<>>]

\* the four accumulators and the pending set after a blank line
PoReset(st) ==
  [st EXCEPT !.entries_under_construction = {},
             !.current_mode = 0,
             !.current_msgid = <<>>,
             !.current_context = <<>>,
             !.current_value = <<>>]

\* the branch for line == ''
PoBlankLine(st) ==
  PoReset(IF st.current_msgid # <<>> THEN SetOnPending(st, TRUE) ELSE st)

\* the branch for a '#. :src:' comment
PoSrcComment(st, line) ==
  LET file == append(st.self, DefaultEntry(SliceFrom(line, 9)))
  IN  [st EXCEPT !.self = file,
                 !.entries_under_construction = @ \cup {Len(file.objs)}]

\* the branch for a continuation line
PoContinuation(st, line) ==
  LET string == unescape_po(SliceInner(line, 1))
  IN  IF st.current_mode = MODE_MSGID
        THEN [st EXCEPT !.current_msgid = @ \o string]
      ELSE IF st.current_mode = MODE_MSGCTXT
        THEN [st EXCEPT !.current_context = @ \o string]
      ELSE IF st.current_mode = MODE_MSGSTR
        THEN [st EXCEPT !.current_value = @ \o string]
      ELSE st

\* one iteration of the loop of read_from_po
PoLine(st, rawline) ==
  LET line == strip(rawline, CRLF)
  IN  IF startswith(line, Hash)
        THEN IF startswith(line, SrcComment) THEN PoSrcComment(st, line) ELSE st
      ELSE IF startswith(line, KwMsgid)
        THEN [st EXCEPT !.current_msgid = unescape_po(SliceInner(line, 7)),
                        !.current_mode = MODE_MSGID]
      ELSE IF startswith(line, KwMsgctxt)
        THEN [st EXCEPT !.current_context = unescape_po(SliceInner(line, 9)),
                        !.current_mode = MODE_MSGCTXT]
      ELSE IF startswith(line, KwMsgstr)
        THEN [st EXCEPT !.current_value = unescape_po(SliceInner(line, 8)),
                        !.current_mode = MODE_MSGSTR]
      ELSE IF startswith(line, <<Quote>>)
        THEN PoContinuation(st, line)
      ELSE IF line = <<>>
        THEN PoBlankLine(st)
      ELSE st

\* the statements after the loop: the last block of a file that does not
\* end with a blank line
PoEndOfFile(st) ==
  IF st.current_msgid # <<>> THEN SetOnPending(st, FALSE) ELSE st

RECURSIVE PoLines(_, _)
\* the loop of read_from_po over the lines f
PoLines(st, f) == IF f = <<>> THEN st ELSE PoLines(PoLine(st, Head(f)), Tail(f))

\* self.read_from_po(f)
read_from_po(self, f) == PoEndOfFile(PoLines(PoStart(self), f)).self

----------------------------------------------------------------------------
(* Ambiguity resolver: TranslationFile.get_translated_entry               *)
(*                                                                         *)
(* A call ends by returning an entry or by raising; since a Python set is  *)
(* iterated in no fixed order, the operator gives the set of the outcomes  *)
(* a call can have.                                                        *)

\* the characters str.strip() removes
Whitespace == {" ", "\t", "\n", "\r", "\f"}

\* return entry
Return(entry) ==
  [kind |-> "return", result |-> <<entry>>, what |-> "", candidates |-> <<>>]

\* raise TranslationException(...): what names the message, candidates the
\* (translation, original text) pairs the message lists
RaiseTranslationException(what, candidates) ==
  [kind |-> "TranslationException", result |-> <<>>, what |-> what,
   candidates |-> candidates]

\* an attribute lookup fails
RaiseAttributeError(what) ==
  [kind |-> "AttributeError", result |-> <<>>, what |-> what, candidates |-> <<>>]

\* the outcomes of lines 141-147: the ambiguity branch for the entry
\* objects values of file self
ResolveAmbiguity(self, values, master_entry) ==
  IF \E r \in values : self.objs[r].src_value = NoAttribute
  THEN {RaiseAttributeError("TranslationEntry.src_value")}
  ELSE LET matching == {r \in values : self.objs[r].src_value = master_entry.value}
           \* the keys of the dict matching_entries
           keys     == {self.objs[r].value : r \in matching}
       IN  IF Cardinality(keys) = 1
             \* the dict holds the entry inserted last, whichever it is
             THEN {Return(self.objs[r]) : r \in matching}
           ELSE IF keys = {}
             \* the message lists the (empty) dict
             THEN {RaiseTranslationException("Ambiguous translation", <<>>)}
           \* the message reads e.value of each key of the dict, a str
           ELSE {RaiseAttributeError("str.value")}

\* the lookup as it is without the test for an empty master value
get_translated_entry_AlwaysLooksUp(self, master_entry) ==
  LET key == strip(master_entry.key, Whitespace)
  IN  IF ~HasKey(self, key)
        THEN {RaiseTranslationException("Key not found", <<>>)}
      ELSE LET values == self.entries[key]
           IN  IF Cardinality(values) = 1
                 THEN {Return(self.objs[r]) : r \in values}
               ELSE ResolveAmbiguity(self, values, master_entry)

\* self.get_translated_entry(master_entry)
get_translated_entry(self, master_entry) ==
  IF Len(master_entry.value) = 0 THEN {Return(get_empty_string_entry)}
  ELSE LET key == strip(master_entry.key, Whitespace)
       IN  IF ~HasKey(self, key)
             THEN {RaiseTranslationException("Key not found", <<>>)}
           ELSE LET values == self.entries[key]
                IN  IF Cardinality(values) = 1
                      THEN {Return(self.objs[r]) : r \in values}
                    ELSE ResolveAmbiguity(self, values, master_entry)

----------------------------------------------------------------------------
(* Conversion runs: the pieces of TranslationHelper.main                  *)

\* the elements of a sequence
Range(seq) == {seq[i] : i \in DOMAIN seq}

\* a line of a context file that read_context_file cannot unpack
BadContextLine(line) ==
  /\ ~(strip(line, {" "} \cup CRLF) = <<>> \/ startswith(line, Hash))
  /\ find(strip(line, CRLF), <<" ">>, 0) = -1

RECURSIVE read_context_file(_, _)
\* read_context_file(f, contexts), for a file without bad lines
read_context_file(f, contexts) ==
  IF f = <<>> THEN contexts
  ELSE LET line == Head(f)
           t    == strip(line, CRLF)
           p    == find(t, <<" ">>, 0)
           key  == SubSeq(t, 1, p)
       IN  IF strip(line, {" "} \cup CRLF) = <<>> \/ startswith(line, Hash)
           THEN read_context_file(Tail(f), contexts)
           ELSE read_context_file(Tail(f),
                  [k \in (DOMAIN contexts) \cup {key} |->
                     IF k = key THEN SliceFrom(t, p + 1) ELSE contexts[k]])

RECURSIVE ReadMasters(_, _, _, _)
\* for m in args.master: master_file.read_from_zusi(m[0], contexts, ...)
ReadMasters(file, masters, contexts, strip_shortcuts) ==
  IF masters = <<>> THEN file
  ELSE ReadMasters(read_from_zusi(file, Head(masters), contexts, strip_shortcuts),
                   Tail(masters), contexts, strip_shortcuts)

\* the dict key of an entry object of a file
ValueAndContext(file, ref) == <<file.objs[ref].value, file.objs[ref].context>>

\* the group map as it is when contexts are ignored
GroupByValue_IgnoringContext(file) ==
  [k \in {ValueAndContext(file, r) : r \in Range(file.entries_in_order)} |->
     SelectSeq(file.entries_in_order, LAMBDA r : file.objs[r].value = k[1])]

\* master_entries_by_value: for each (value, context) the entries of the
\* master file that have it, in file order
GroupByValue(file) ==
  [k \in {ValueAndContext(file, r) : r \in Range(file.entries_in_order)} |->
     SelectSeq(file.entries_in_order, LAMBDA r : ValueAndContext(file, r) = k)]

\* del master_entries_by_value[key]
DeleteKey(dict, key) == [k \in (DOMAIN dict) \ {key} |-> dict[k]]

\* master_file.entries_in_order.insert(0, get_empty_string_entry())
InsertEmptyEntryFirst(file) ==
  [file EXCEPT !.objs = Append(@, get_empty_string_entry),
               !.entries_in_order = <<Len(file.objs) + 1>> \o @]

\* key == entry for a str and a TranslationEntry: the class defines no
\* __eq__, so the comparison falls back to identity
StrEqualsEntry(key, entry) == FALSE

\* key in file, for a TranslationFile: the class defines __iter__ but no
\* __contains__, so the key is compared with each entry object
KeyInTranslationFile(file, key) ==
  \E i \in DOMAIN file.entries_in_order :
     StrEqualsEntry(key, file.objs[file.entries_in_order[i]])

\* possible_translation_entries: the entries looked up for the keys that
\* pass the test above (existing_translation[key] has no __getitem__ to
\* run, the list is empty whenever the test is false for every key)
PossibleTranslationEntries(existing_translation, master_file, all_entries) ==
  SelectSeq(all_entries,
            LAMBDA r : KeyInTranslationFile(existing_translation, master_file.objs[r].key))

ContentTypeLine ==
  <<Quote>> \o
  <<"C", "o", "n", "t", "e", "n", "t", "-", "T", "y", "p", "e", ":", " ",
    "t", "e", "x", "t", "/", "p", "l", "a", "i", "n", ";", " ",
    "c", "h", "a", "r", "s", "e", "t", "=", "U", "T", "F", "-", "8", "\\", "n">>
  \o <<Quote>>

\* the writes of lines 371-375: the comments, the optional msgctxt and
\* the msgid of a block
BlockHead(master_file, all_entries, master_entry) ==
  [i \in DOMAIN all_entries |-> SrcLine(master_file.objs[all_entries[i]].key) \o linesep]
    \o (IF Len(master_entry.context) # 0
        THEN <<MsgctxtLine(master_entry.context) \o linesep>> ELSE <<>>)
    \o <<MsgidLine(master_entry.value) \o linesep>>

\* the writes of lines 397-400: the optional Content-Type line and the
\* blank line that ends a block
BlockTail(master_entry) ==
  (IF master_entry.key = <<>> THEN <<ContentTypeLine \o linesep>> ELSE <<>>)
    \o <<linesep>>

----------------------------------------------------------------------------
(* ShortcutGroupFile                                                       *)
(*                                                                         *)
(* A shortcut letter is a one-character string, Python's None the string   *)
(* "None" and the empty default of get_shortcut_weight the string "".      *)

\* "abcdefghijklmnopqrstuvwxyz"
Lowercase ==
  <<"a", "b", "c", "d", "e", "f", "g", "h", "i", "j", "k", "l", "m",
    "n", "o", "p", "q", "r", "s", "t", "u", "v", "w", "x", "y", "z">>

Uppercase ==
  <<"A", "B", "C", "D", "E", "F", "G", "H", "I", "J", "K", "L", "M",
    "N", "O", "P", "Q", "R", "S", "T", "U", "V", "W", "X", "Y", "Z">>

\* c.lower() for a character
LowerChar(c) ==
  IF \E i \in DOMAIN Uppercase : Uppercase[i] = c
  THEN Lowercase[CHOOSE i \in DOMAIN Uppercase : Uppercase[i] = c] ELSE c

\* c.upper() for a character
UpperChar(c) ==
  IF \E i \in DOMAIN Lowercase : Lowercase[i] = c
  THEN Uppercase[CHOOSE i \in DOMAIN Lowercase : Lowercase[i] = c] ELSE c

\* string.lower()
lower(string) == [i \in DOMAIN string |-> LowerChar(string[i])]

None == "None"

\* sub in string, for sub the empty string or one character
PyIn(sub, string) == sub = "" \/ sub \in Range(string)

\* the positions at which the character occurs in the string
Occurrences(string, char) == {i - 1 : i \in {j \in DOMAIN string : string[j] = char}}

RECURSIVE ReadGroups(_, _, _)
\* ShortcutGroupFile.read_from_file: the list self.groups
ReadGroups(f, cur_set, groups) ==
  IF f = <<>> THEN groups
  ELSE LET line == strip(Head(f), {" "} \cup CRLF)
       IN  IF Len(line) # 0 THEN ReadGroups(Tail(f), cur_set \cup {line}, groups)
           ELSE IF cur_set # {} THEN ReadGroups(Tail(f), {}, Append(groups, cur_set))
           ELSE ReadGroups(Tail(f), cur_set, groups)

\* get_shortcut(string)
get_shortcut(string) ==
  LET starts == {i \in DOMAIN string :
                   string[i] = "&" /\ i < Len(string) /\ string[i + 1] # "&"}
  IN  IF starts = {} THEN None ELSE LowerChar(string[Min(starts) + 1])

\* get_shortcut_weight(string, pos, source_shortcut, existing_shortcut)
get_shortcut_weight(string, pos, source_shortcut, existing_shortcut) ==
  LET c          == string[pos + 1]
      word_start == pos = 0 \/ string[pos] \in {" ", "-", "_", "+"}
      is_upper   == UpperChar(c) = c
      base       == IF word_start THEN (IF is_upper THEN 500 ELSE 600)
                    ELSE (IF is_upper THEN 700 ELSE 800)
      favoured   == IF ~PyIn(source_shortcut, Lowercase) /\ LowerChar(c) = source_shortcut
                    THEN base - 500 ELSE base
      special    == IF LowerChar(c) \notin Range(Lowercase) \cup {source_shortcut}
                    THEN favoured + 500 ELSE favoured
      result     == IF LowerChar(c) = existing_shortcut THEN 0 ELSE special
  IN  result + (pos \div 10)

\* the weight as it is when a missing letter costs nothing
get_min_shortcut_weight_NoSentinel(string, char, source_shortcut, existing_shortcut) ==
  LET occurrences == Occurrences(string, char)
  IN  IF occurrences = {} THEN 0
      ELSE Min({get_shortcut_weight(string, pos, source_shortcut, existing_shortcut) :
                  pos \in occurrences})

\* get_min_shortcut_weight(string, char, source_shortcut, existing_shortcut)
get_min_shortcut_weight(string, char, source_shortcut, existing_shortcut) ==
  LET occurrences == Occurrences(string, char)
  IN  IF occurrences = {} THEN 9999
      ELSE Min({get_shortcut_weight(string, pos, source_shortcut, existing_shortcut) :
                     pos \in occurrences})

\* raise Exception(...)
RaiseException(what) ==
  [kind |-> "Exception", result |-> <<>>, what |-> what, candidates |-> <<>>]

\* the position as it is when the first occurrence is taken
ShortcutPosition_FirstOccurrence(string, shortcut) ==
  LET starts == Occurrences(lower(string), shortcut)
  IN  IF starts = {} THEN -1 ELSE Min(starts)

\* the position add_shortcut chooses: the occurrence of the least weight,
\* the earliest of them; -1 when the letter does not occur
ShortcutPosition(string, shortcut) ==
  LET starts    == Occurrences(lower(string), shortcut)
      weight(p) == get_shortcut_weight(string, p, "", "")
  IN  IF starts = {} THEN -1
      ELSE CHOOSE p \in starts :
             \A q \in starts : weight(p) < weight(q) \/ (weight(p) = weight(q) /\ p <= q)

\* add_shortcut(string, shortcut): the outcome of the call
add_shortcut(string, shortcut) ==
  LET position == ShortcutPosition(string, shortcut)
  IN  IF position = -1 THEN RaiseException("Shortcut not found")
      ELSE Return(SubSeq(string, 1, position) \o <<"&">> \o SliceFrom(string, position))

\* main, lines 407-411: the value with the shortcut of the key put in, the
\* value as it is when shortcuts_by_key has no item for the key (KeyError)
MarkedValue(value, shortcuts_by_key_, key) ==
  IF key \in DOMAIN shortcuts_by_key_
  THEN add_shortcut(value, shortcuts_by_key_[key])
  ELSE Return(value)

----------------------------------------------------------------------------
(* generate_shortcuts                                                      *)
(*                                                                         *)
(* The solver module munkres is not part of the sources at hand: Munkres   *)
(* is modelled from the description of the assignment solver, a            *)
(* minimum-cost matching of the rows and the columns of the matrix in      *)
(* which ties are broken in an order left to the implementation. A cost    *)
(* matrix is a function on (row, column) pairs; rows are entry objects of  *)
(* the master file, columns are letters; the sorting of the letter set     *)
(* fixes the order of the columns only. The keys of a group and the        *)
(* entries of a key are Python sets and iterated in no fixed order, so     *)
(* generate_shortcuts gives the set of the outcomes a call can have.       *)

RECURSIVE TotalCost(_, _)
\* the sum of the costs of the pairs of a matching
TotalCost(matrix, pairs) ==
  IF pairs = {} THEN 0
  ELSE LET p == CHOOSE q \in pairs : TRUE
       IN  matrix[p] + TotalCost(matrix, pairs \ {p})

\* the matchings of rows and columns that pair as many as can be paired
Matchings(rows, columns) ==
  {m \in SUBSET (rows \X columns) :
     /\ \A p, q \in m : (p[1] = q[1] \/ p[2] = q[2]) => p = q
     /\ Cardinality(m) = Min({Cardinality(rows), Cardinality(columns)})}

\* Munkres().compute(matrix): the matchings of least total cost
MunkresCompute(rows, columns, matrix) ==
  LET all == Matchings(rows, columns)
  IN  {m \in all : \A n \in all : TotalCost(matrix, m) <= TotalCost(matrix, n)}

\* the outcomes of a call that are returns
Returns(outcomes) == {o \in outcomes : o.kind = "return"}

\* the entries of the master file the loop over a group looks at: those
\* of the keys of the group that contain Caption or Text, are keys of the
\* master file, and whose value has a source shortcut
GroupCandidates(group, master_file) ==
  {r \in UNION {EntriesOf(master_file, key) :
                  key \in {k \in group : contains(k, Caption) \/ contains(k, Text)}} :
     get_shortcut(master_file.objs[r].value) # None}

\* the exceptions the two lookups for a candidate can end in: any of the
\* first, and of the second all but TranslationException, which is caught
CandidateRaises(master_entry, translation_file, existing_translation) ==
  LET translated == get_translated_entry(translation_file, master_entry)
      existing   == get_translated_entry(existing_translation, master_entry)
  IN  (translated \ Returns(translated))
        \cup (IF Returns(translated) = {} THEN {}
              ELSE {o \in existing : o.kind \notin {"return", "TranslationException"}})

\* the tuples (translated entry, source shortcut, existing shortcut) the
\* two lookups for a candidate can give
CandidateRows(master_entry, translation_file, existing_translation) ==
  LET translated == get_translated_entry(translation_file, master_entry)
      existing   == get_translated_entry(existing_translation, master_entry)
  IN  {[entry |-> t.result[1],
        source_shortcut |-> get_shortcut(master_entry.value),
        existing_shortcut |-> x] :
         t \in Returns(translated),
         x \in {get_shortcut(e.result[1].value) : e \in Returns(existing)}
                 \cup (IF \E e \in existing : e.kind = "TranslationException"
                       THEN {None} ELSE {})}

\* the letter set of a group: the characters of the lowercased translated
\* values, spaces left out
LetterSet(rows) ==
  UNION {Range(lower(rows[r].entry.value)) : r \in DOMAIN rows} \ {" "}

\* the cost matrix of a group
CostMatrix(rows) ==
  [p \in (DOMAIN rows) \X LetterSet(rows) |->
     get_min_shortcut_weight(lower(rows[p[1]].entry.value), p[2],
                             rows[p[1]].source_shortcut, rows[p[1]].existing_shortcut)]

\* dict d with the items of dict e put in
Updated(d, e) ==
  [k \in (DOMAIN d) \cup (DOMAIN e) |-> IF k \in DOMAIN e THEN e[k] ELSE d[k]]

\* the dicts that the loop over the pairs of a matching can make of
\* result: a key gets the letter of one of the rows that have it
Assigned(rows, pairs) ==
  LET keys == {rows[p[1]].entry.key : p \in pairs}
  IN  {f \in [keys -> {p[2] : p \in pairs}] :
         \A k \in keys : \E p \in pairs : rows[p[1]].entry.key = k /\ f[k] = p[2]}

\* the outcomes of one iteration of the loop over the groups: an exception,
\* or the items put into result
GroupOutcomes(group, master_file, translation_file, existing_translation) ==
  LET candidates == GroupCandidates(group, master_file)
      raises == UNION {CandidateRaises(master_file.objs[r], translation_file,
                                       existing_translation) : r \in candidates}
      choices(r) == CandidateRows(master_file.objs[r], translation_file,
                                  existing_translation)
      all_rows == {rows \in [candidates -> UNION {choices(r) : r \in candidates}] :
                     \A r \in candidates : rows[r] \in choices(r)}
      solved(rows) ==
        LET matrix == CostMatrix(rows)
            outcomes_of(pairs) ==
              IF \E p \in pairs : matrix[p] = 9999
              THEN {RaiseTranslationException("No conflict-free shortcut", <<>>)}
              ELSE {Return(f) : f \in Assigned(rows, pairs)}
        IN  UNION {outcomes_of(pairs) :
                     pairs \in MunkresCompute(candidates, LetterSet(rows), matrix)}
  IN  IF candidates = {} THEN {Return(<<>>)}
      ELSE raises \cup UNION {solved(rows) : rows \in all_rows}

RECURSIVE GenerateFrom(_, _, _, _, _)
\* the loop over self.groups, from the given groups on with the given result
GenerateFrom(groups, result, master_file, translation_file, existing_translation) ==
  IF groups = <<>> THEN {Return(result)}
  ELSE LET outcomes == GroupOutcomes(Head(groups), master_file, translation_file,
                                     existing_translation)
       IN  (outcomes \ Returns(outcomes))
             \cup UNION {GenerateFrom(Tail(groups), Updated(result, o.result[1]),
                                      master_file, translation_file,
                                      existing_translation) : o \in Returns(outcomes)}

\* self.generate_shortcuts(master_file, translation_file, existing_translation),
\* self given by its list of groups
generate_shortcuts(groups, master_file, translation_file, existing_translation) ==
  GenerateFrom(groups, <<>>, master_file, translation_file, existing_translation)

----------------------------------------------------------------------------
(* generate_shortcuts, one run: the candidates of a group in the order in  *)
(* which the loops over the set group and over the set                     *)
(* master_file.entries[key] meet them, the letters in sorted order, the    *)
(* matrix as a list of rows. The solver returns one matching of least      *)
(* total cost, the same for the same matrix.                               *)

\* the sequences without repetition of all elements of a set
OrdersOf(S) ==
  {f \in [1..Cardinality(S) -> S] : \A x \in S : \E i \in DOMAIN f : f[i] = x}

\* the orders in which the two loops can meet the candidates of a group:
\* the entries of a key come one after the other
CandidateOrders(group, master_file) ==
  {order \in OrdersOf(GroupCandidates(group, master_file)) :
     \A i, j, k \in DOMAIN order :
        (i < j /\ j < k /\ master_file.objs[order[i]].key = master_file.objs[order[k]].key)
          => master_file.objs[order[j]].key = master_file.objs[order[i]].key}

\* the characters of the model in the order of their code points
CodePoints ==
  <<" ", "\"", "&", "'", "+", "-", "1", "=">> \o Uppercase \o <<"\\", "_">> \o Lowercase

\* ord(c)
CodePoint(c) == CHOOSE i \in DOMAIN CodePoints : CodePoints[i] = c

RECURSIVE Sorted(_)
\* sorted(letterset)
Sorted(letterset) ==
  IF letterset = {} THEN <<>>
  ELSE LET first == CHOOSE c \in letterset :
                      \A d \in letterset : CodePoint(c) <= CodePoint(d)
       IN  <<first>> \o Sorted(letterset \ {first})

\* matrix: a row for each of entries_with_shortcuts, a column for each
\* letter of the sorted letterset
MatrixRows(entries_with_shortcuts, letterset) ==
  [i \in DOMAIN entries_with_shortcuts |->
     [j \in DOMAIN letterset |->
        get_min_shortcut_weight(lower(entries_with_shortcuts[i].entry.value),
                                letterset[j],
                                entries_with_shortcuts[i].source_shortcut,
                                entries_with_shortcuts[i].existing_shortcut)]]

\* Munkres().compute(matrix) of a solver that is a function of the matrix:
\* one of the matchings of least total cost, as the function row -> column
Compute(matrix) ==
  LET rows    == DOMAIN matrix
      columns == IF matrix = <<>> THEN {} ELSE DOMAIN matrix[1]
      cost    == [p \in rows \X columns |-> matrix[p[1]][p[2]]]
      pairs   == CHOOSE m \in MunkresCompute(rows, columns, cost) : TRUE
  IN  [i \in {p[1] : p \in pairs} |-> (CHOOSE p \in pairs : p[1] = i)[2]]

RECURSIVE AssignInOrder(_, _, _, _, _, _)
\* the loop over indexes, from the given row on with the given result
AssignInOrder(indexes, entry_idx, entries_with_shortcuts, letterset, matrix, result) ==
  IF entry_idx > Len(entries_with_shortcuts) THEN Return(result)
  ELSE IF entry_idx \notin DOMAIN indexes
    THEN AssignInOrder(indexes, entry_idx + 1, entries_with_shortcuts, letterset,
                       matrix, result)
  ELSE IF matrix[entry_idx][indexes[entry_idx]] = 9999
    THEN RaiseTranslationException("No conflict-free shortcut", <<>>)
  ELSE AssignInOrder(indexes, entry_idx + 1, entries_with_shortcuts, letterset, matrix,
                     Updated(result,
                             entries_with_shortcuts[entry_idx].entry.key
                               :> letterset[indexes[entry_idx]]))

\* the outcomes of one iteration of the loop over the groups in which the
\* candidates are met in the given order: an exception, or result
GroupOutcomesInOrder(order, result, master_file, translation_file, existing_translation) ==
  LET candidates == Range(order)
      raises == UNION {CandidateRaises(master_file.objs[r], translation_file,
                                       existing_translation) : r \in candidates}
      choices(r) == CandidateRows(master_file.objs[r], translation_file,
                                  existing_translation)
      all_rows == {rows \in [candidates -> UNION {choices(r) : r \in candidates}] :
                     \A r \in candidates : rows[r] \in choices(r)}
      solved(rows) ==
        LET entries_with_shortcuts == [i \in DOMAIN order |-> rows[order[i]]]
            letterset == Sorted(LetterSet(rows))
            matrix == MatrixRows(entries_with_shortcuts, letterset)
        IN  AssignInOrder(Compute(matrix), 1, entries_with_shortcuts, letterset,
                          matrix, result)
  IN  IF order = <<>> THEN {Return(result)}
      ELSE raises \cup {solved(rows) : rows \in all_rows}

RECURSIVE GenerateInOrder(_, _, _, _, _, _)
\* the loop over self.groups, from the given group on with the given
\* result, the candidates of each group met in the order given for it
GenerateInOrder(orders, g, result, master_file, translation_file, existing_translation) ==
  IF g > Len(orders) THEN {Return(result)}
  ELSE LET outcomes == GroupOutcomesInOrder(orders[g], result, master_file,
                                            translation_file, existing_translation)
       IN  (outcomes \ Returns(outcomes))
             \cup UNION {GenerateInOrder(orders, g + 1, o.result[1], master_file,
                                         translation_file, existing_translation) :
                           o \in Returns(outcomes)}

\* the orders a run can meet the candidates in, an order for each group
RunOrders(groups, master_file) ==
  {orders \in [DOMAIN groups ->
                 UNION {CandidateOrders(groups[g], master_file) : g \in DOMAIN groups}] :
     \A g \in DOMAIN groups : orders[g] \in CandidateOrders(groups[g], master_file)}

----------------------------------------------------------------------------
(* Bounds and input pools of the Zusi round-trip harness                   *)

MaxValueLen == 4

MaxCycles == 3

\* characters a raw value is made of
ValueChars == {" ", "'", "a", "&"}

RECURSIVE TextsUpTo(_, _)
\* every text over the characters cs with at most n characters
TextsUpTo(cs, n) ==
  IF n = 0 THEN {<<>>}
  ELSE LET shorter == TextsUpTo(cs, n - 1)
       IN  shorter \cup {Append(t, c) : t \in {u \in shorter : Len(u) = n - 1}, c \in cs}

KeyK == <<"K">>

ZusiKeys == {KeyK, Streckenvorschau, Text}

\* record lines KEY = VALUE, with or without line terminator, and lines
\* without the separator
ZusiLines ==
  {k \o SepEq \o v : k \in ZusiKeys, v \in TextsUpTo(ValueChars, MaxValueLen)}
    \cup {KeyK \o <<"=">> \o v : v \in TextsUpTo(ValueChars, 1)}

----------------------------------------------------------------------------
(* Bounds and input pool of the PO parser harness                          *)

MaxPoLines == 5

TextA == <<"a">>

TextB == <<"b">>

TextC == <<"c">>

BlankLine == <<"\n">>

PoLinePool ==
  { SrcLine(KeyK) \o <<"\n">>,
    MsgidLine(TextA) \o <<"\n">>,
    MsgidLine(<<>>) \o <<"\n">>,
    MsgctxtLine(TextC) \o <<"\n">>,
    MsgstrLine(TextB) \o <<"\n">>,
    ContinuationLine(<<Quote, "x">>) \o <<"\n">>,
    <<"#", " ", "x", "\n">>,
    BlankLine }

----------------------------------------------------------------------------
(* Bounds and input pools of the resolver harness                         *)

MaxTargetBlocks == 3

MaxTargetLines == 3

Hello == <<"h", "e", "l", "l", "o">>

Hi == <<"h", "i">>

Bye == <<"b", "y", "e">>

Bonjour == <<"b", "o", "n", "j", "o", "u", "r">>

Salut == <<"s", "a", "l", "u", "t">>

RECURSIVE SeqsUpTo(_, _)
\* every sequence of at most n elements of S
SeqsUpTo(S, n) ==
  IF n = 0 THEN {<<>>}
  ELSE LET shorter == SeqsUpTo(S, n - 1)
       IN  shorter \cup {Append(t, x) : t \in {u \in shorter : Len(u) = n - 1}, x \in S}

RECURSIVE Flatten(_)
\* the concatenation of a sequence of sequences
Flatten(ss) == IF ss = <<>> THEN <<>> ELSE Head(ss) \o Flatten(Tail(ss))

\* a translated PO block for one key, as zusi2pot lays it out, without
\* the blank line that ends it
PoBlock(key, msgid, msgstr) ==
  << SrcLine(key) \o linesep, MsgidLine(msgid) \o linesep,
     MsgstrLine(msgstr) \o linesep >>

TargetBlocks == {PoBlock(KeyK, id, str) : id \in {Hello, Hi}, str \in {Bonjour, Salut}}

\* PO files: blocks separated by blank lines, with or without a blank
\* line after the last block
TargetPoFiles ==
  {Flatten([i \in 1..Len(bs) |->
              bs[i] \o (IF i < Len(bs) \/ closed THEN <<linesep>> ELSE <<>>)]) :
     bs \in SeqsUpTo(TargetBlocks, MaxTargetBlocks), closed \in BOOLEAN}

\* Zusi translation files
TargetZusiFiles ==
  SeqsUpTo({KeyK \o SepEq \o v \o linesep : v \in {Hello, Hi, Bye}}, MaxTargetLines)

\* master lines: texts to look up, an empty text, a key with a space in front
ResolverMasterLines ==
  {KeyK \o SepEq \o v \o linesep : v \in {Hello, Hi, Bye, <<>>}}
    \cup {<<" ">> \o KeyK \o SepEq \o Hello \o linesep}

----------------------------------------------------------------------------
(* Bounds and input pools of the conversion runs                          *)

MaxMasterLines == 3

KeyA == <<"A">>

KeyB == <<"B">>

KeyC == <<"C">>

\* a Zusi record line
ZusiLine(key, value) == key \o SepEq \o value \o linesep

\* master lines of the export runs: keys sharing a text, a text with a
\* double quote, an empty text, an empty key
ExportMasterLines ==
  { ZusiLine(KeyA, TextA), ZusiLine(KeyB, TextA), ZusiLine(KeyA, <<Quote, "b">>),
    ZusiLine(KeyC, <<>>), ZusiLine(<<>>, TextA) }

\* no context file, or one that gives key B the context c
ContextFiles == { <<>>, << <<"#", " ", "x">> \o linesep, KeyB \o <<" ">> \o TextC \o linesep >> }

\* existing translations for zusi2po
TranslationFiles ==
  { <<ZusiLine(KeyA, Bonjour)>>,
    <<ZusiLine(KeyA, Bonjour), ZusiLine(KeyB, Bonjour), ZusiLine(KeyC, <<>>)>>,
    <<ZusiLine(KeyA, Bonjour), ZusiLine(KeyB, Salut)>> }

ExportArgs ==
  {[mode |-> "zusi2pot", master |-> <<f>>, context |-> c, translation |-> <<>>,
    po_file |-> <<>>, shortcut_groups |-> <<>>, strip_shortcuts |-> FALSE] :
      f \in SeqsUpTo(ExportMasterLines, MaxMasterLines), c \in ContextFiles}
  \cup
  {[mode |-> "zusi2po", master |-> <<f>>, context |-> c, translation |-> t,
    po_file |-> <<>>, shortcut_groups |-> <<>>, strip_shortcuts |-> FALSE] :
      f \in SeqsUpTo(ExportMasterLines, MaxMasterLines), c \in ContextFiles,
      t \in TranslationFiles}

MaxImportLines == 2

KeyTextB == <<"T", "e", "x", "t", "B">>

\* a translation whose last letter is at position 10
OneAndB == <<"1", "a", "a", "a", "a", "a", "a", "a", "a", "a", "b">>

\* master lines of the import runs: quotes and spaces around the value,
\* source shortcuts (letters and a digit) under keys with Caption and
\* Text, an empty value
ImportMasterLines ==
  { ZusiLine(Caption, <<" ", "'", "&", "a", "'", " ">>),
    ZusiLine(Text, <<"&", "b">>),
    ZusiLine(KeyTextB, <<"&", "1">>),
    ZusiLine(Streckenvorschau, <<" ", " ", "a", " ">>),
    ZusiLine(KeyK, <<"'", "a", "'">>),
    ZusiLine(KeyK, <<>>) }

\* a PO file of closed blocks
PoFileOf(blocks) == Flatten([i \in DOMAIN blocks |-> blocks[i] \o <<linesep>>])

\* PO files: every key translated; two keys missing; the two captions
\* with one letter between them and key K twice; the two captions with
\* a letter each that the other has not
PoFiles ==
  { PoFileOf(<<PoBlock(Caption, <<"&", "a">>, <<"A", "b">>),
               PoBlock(Text, <<"&", "b">>, <<"a", "b">>),
               PoBlock(KeyTextB, <<"&", "1">>, OneAndB),
               PoBlock(Streckenvorschau, TextA, <<"y">>),
               PoBlock(KeyK, TextA, <<"x", "'">>)>>),
    PoFileOf(<<PoBlock(Caption, <<"&", "a">>, <<"A", "b">>),
               PoBlock(Streckenvorschau, TextA, <<"y">>)>>),
    PoFileOf(<<PoBlock(Caption, <<"&", "a">>, <<"c">>),
               PoBlock(Text, <<"&", "b">>, <<"c">>),
               PoBlock(KeyK, TextA, <<"x">>),
               PoBlock(KeyK, TextB, <<"z">>)>>),
    PoFileOf(<<PoBlock(Caption, <<"&", "a">>, <<"A", "b">>),
               PoBlock(Text, <<"&", "b">>, <<"c", "a">>)>>) }

\* no shortcut group file, or one with the group of the three captions
ShortcutGroupFiles ==
  { <<>>, <<Caption \o linesep, Text \o linesep, KeyTextB \o linesep, linesep>> }

\* no prior translation, one in which Caption has the shortcut b, one in
\* which TextB has the shortcut b as well
PriorTranslationFiles ==
  { <<>>,
    <<ZusiLine(Caption, <<"A", "&", "b">>)>>,
    <<ZusiLine(Caption, <<"A", "&", "b">>),
      ZusiLine(KeyTextB, SubSeq(OneAndB, 1, 10) \o <<"&", "b">>)>> }

ImportArgs ==
  {[mode |-> "po2zusi", master |-> <<f>>, context |-> <<>>, translation |-> t,
    po_file |-> p, shortcut_groups |-> g, strip_shortcuts |-> FALSE] :
      f \in SeqsUpTo(ImportMasterLines, MaxImportLines), t \in PriorTranslationFiles,
      p \in PoFiles, g \in ShortcutGroupFiles}

\* import runs on a master file that has the key Caption twice, with two
\* source texts that the PO file translates differently
RepeatedKeyArgs ==
  {[mode |-> "po2zusi", master |-> <<f>>, context |-> <<>>, translation |-> <<>>,
    po_file |-> p,
    shortcut_groups |-> <<Caption \o linesep, linesep>>,
    strip_shortcuts |-> FALSE] :
      f \in { <<ZusiLine(Caption, <<"&", "a">>), ZusiLine(Caption, <<"&", "b">>)>>,
              <<ZusiLine(Caption, <<"&", "b">>), ZusiLine(Caption, <<"&", "a">>)>> },
      p \in { PoFileOf(<<PoBlock(Caption, <<"&", "a">>, <<"x">>),
                         PoBlock(Caption, <<"&", "b">>, <<"y">>)>>),
              PoFileOf(<<PoBlock(Caption, <<"&", "a">>, <<"x", "y">>),
                         PoBlock(Caption, <<"&", "b">>, <<"y", "x">>)>>) }}

----------------------------------------------------------------------------
(* Bounds and input pool of the shortcut function harness                 *)

MaxShortcutLen == 4

ShortcutChars == {"&", " ", "a", "A", "1"}

\* strings long enough for the position term of the weight
LongStrings ==
  { <<"b", "b", "b", "b", "b", "b", "b", "b", "b", "b", "a", "1">>,
    <<"1", "b", "b", "b", "b", "b", "b", "b", "b", "b", "A", "a">> }

ShortcutStrings == TextsUpTo(ShortcutChars, MaxShortcutLen) \cup LongStrings

\* the number of runs of generate_shortcuts on the same files
MaxRuns == 2

\* the shortcuts of the master value and of the earlier translation that
\* a candidate comes with, and the translated values of a second candidate
SourceShortcuts == {"a", "1"}

ExistingShortcuts == {None, "a", "1"}

OtherValues == {<<"b">>, <<"a", "1">>}

\* the dicts shortcuts_by_key of the harness: empty, or a letter for KeyA
AssignedShortcuts == {<<>>} \cup {KeyA :> c : c \in {"a", "1", " ", "&"}}

----------------------------------------------------------------------------
(* State                                                                   *)

VARIABLES
  zline,     \* the line about to be parsed
  zstrip,    \* the strip_shortcuts argument
  zentries,  \* the result of each parse so far: <<>> or <<entry>>
  zpc        \* "parse", "write", "done", or "off" in the other specifications

zvars == <<zline, zstrip, zentries, zpc>>

VARIABLES
  po_f,   \* the lines read so far
  po,     \* the locals of read_from_po
  po_pc   \* "loop", "returned", or "off" in the other specifications

povars == <<po_f, po, po_pc>>

VARIABLES
  target_kind,   \* "po" or "zusi": the reader that builds the target file
  target_f,      \* the lines of the target file
  target,        \* the target TranslationFile
  call_master_entry,  \* the master entry of the last call, as <<entry>>
  outcome,       \* the outcome of the last call, as <<outcome>>
  rpc            \* "read", "call", or "off" in the other specifications

rvars == <<target_kind, target_f, target, call_master_entry, outcome, rpc>>

VARIABLES
  args,                     \* the parsed command line: mode and the lines of each file
  contexts,                 \* key -> context
  master_file,              \* TranslationFile of the master file(s)
  existing_translation,     \* TranslationFile of --translation
  master_entries_by_value,  \* (value, context) -> list of master entries
  outfile,                  \* the strings written so far, one per write()
  it,                       \* the index the loop over master_file is at
  shortcuts,                \* the groups of the ShortcutGroupFile
  po_file,                  \* TranslationFile of --po-file
  shortcuts_by_key,         \* key -> shortcut letter
  pc,                       \* "load", "loaded", "export", "import", "done", "exit", "raised", "off"
  exit_status               \* the argument of sys.exit, or the exception

mvars == <<args, contexts, master_file, existing_translation,
           master_entries_by_value, outfile, it, shortcuts, po_file,
           shortcuts_by_key, pc, exit_status>>

VARIABLES
  s_string,  \* the string the methods of ShortcutGroupFile are called with
  s_call     \* the last call and its result, as <<call>>

svars == <<s_string, s_call>>

VARIABLES
  g_input,  \* the ShortcutGroupFile's groups and the three files of a call, as <<input>>
  g_runs    \* the runs of generate_shortcuts so far: orders and outcome

gvars == <<g_input, g_runs>>

vars == <<zvars, povars, rvars, mvars, svars, gvars>>

NotZusi == <<povars, rvars, mvars, svars, gvars>>

NotPo == <<zvars, rvars, mvars, svars, gvars>>

NotResolver == <<zvars, povars, mvars, svars, gvars>>

NotMain == <<zvars, povars, rvars, svars, gvars>>

NotShortcut == <<zvars, povars, rvars, mvars, gvars>>

NotGenerate == <<zvars, povars, rvars, mvars, svars>>

----------------------------------------------------------------------------
(* Zusi round-trip harness: a line is parsed by read_from_zusi, the entry  *)
(* is written by the record writer with its own value as translation, and  *)
(* the written line is parsed again.                                       *)

ZInit ==
  /\ zline \in ZusiLines
  /\ zstrip \in BOOLEAN
  /\ zentries = <<>>
  /\ zpc = "parse"

ZOff ==
  /\ zline = <<>>
  /\ zstrip = FALSE
  /\ zentries = <<>>
  /\ zpc = "off"

ZParse ==
  /\ zpc = "parse"
  /\ LET file == read_from_zusi(NewTranslationFile, <<zline>>, <<>>, zstrip)
     IN  /\ zentries' = Append(zentries, InOrder(file))
         /\ zpc' = IF InOrder(file) = <<>> THEN "done" ELSE "write"
  /\ UNCHANGED <<zline, zstrip>>
  /\ UNCHANGED NotZusi

ZWrite ==
  /\ zpc = "write"
  /\ LET entry == zentries[Len(zentries)][1]
     IN  zline' = ZusiRecord(entry, entry.value)
  /\ zpc' = IF Len(zentries) < MaxCycles THEN "parse" ELSE "done"
  /\ UNCHANGED <<zstrip, zentries>>
  /\ UNCHANGED NotZusi

ZNext == ZParse \/ ZWrite

----------------------------------------------------------------------------
(* PO parser harness: read_from_po run line by line on an arbitrary        *)
(* sequence of lines from the pool                                         *)

PInit ==
  /\ po_f = <<>>
  /\ po = PoStart(NewTranslationFile)
  /\ po_pc = "loop"

POff ==
  /\ po_f = <<>>
  /\ po = PoStart(NewTranslationFile)
  /\ po_pc = "off"

\* the loop body, for the next line of the file
PReadLine ==
  /\ po_pc = "loop"
  /\ Len(po_f) < MaxPoLines
  /\ \E line \in PoLinePool :
        /\ po_f' = Append(po_f, line)
        /\ po' = PoLine(po, line)
  /\ UNCHANGED po_pc
  /\ UNCHANGED NotPo

\* the end of the file: the statements after the loop, and the return
PEndOfFile ==
  /\ po_pc = "loop"
  /\ po' = PoEndOfFile(po)
  /\ po_pc' = "returned"
  /\ UNCHANGED po_f
  /\ UNCHANGED NotPo

PNext == PReadLine \/ PEndOfFile

----------------------------------------------------------------------------
(* Resolver harness: a target file is built by one of the two readers,    *)
(* then get_translated_entry is called on it with master entries           *)

RInit ==
  /\ \/ target_kind = "zusi" /\ target_f \in TargetZusiFiles
     \/ target_kind = "po" /\ target_f \in TargetPoFiles
  /\ target = NewTranslationFile
  /\ call_master_entry = <<>>
  /\ outcome = <<>>
  /\ rpc = "read"

ROff ==
  /\ target_kind = "off"
  /\ target_f = <<>>
  /\ target = NewTranslationFile
  /\ call_master_entry = <<>>
  /\ outcome = <<>>
  /\ rpc = "off"

\* TranslationFile().read_from_po(f) or .read_from_zusi(f, {})
RRead ==
  /\ rpc = "read"
  /\ target' = IF target_kind = "po"
               THEN read_from_po(NewTranslationFile, target_f)
               ELSE read_from_zusi(NewTranslationFile, target_f, <<>>, FALSE)
  /\ rpc' = "call"
  /\ UNCHANGED <<target_kind, target_f, call_master_entry, outcome>>
  /\ UNCHANGED NotResolver

\* target.get_translated_entry(m) for a master entry m read from a line
RCall ==
  /\ rpc = "call"
  /\ \E line \in ResolverMasterLines :
       LET m == InOrder(read_from_zusi(NewTranslationFile, <<line>>, <<>>, FALSE))[1]
       IN  /\ call_master_entry' = <<m>>
           /\ \E o \in get_translated_entry(target, m) : outcome' = <<o>>
  /\ UNCHANGED <<target_kind, target_f, target, rpc>>
  /\ UNCHANGED NotResolver

RNext == RRead \/ RCall

----------------------------------------------------------------------------
(* TranslationHelper.main: the conversion runs                             *)

MInit ==
  /\ args \in ExportArgs \cup ImportArgs \cup RepeatedKeyArgs
  /\ contexts = <<>>
  /\ master_file = NewTranslationFile
  /\ existing_translation = NewTranslationFile
  /\ master_entries_by_value = <<>>
  /\ shortcuts = <<>>
  /\ po_file = NewTranslationFile
  /\ shortcuts_by_key = <<>>
  /\ outfile = <<>>
  /\ it = 0
  /\ pc = "load"
  /\ exit_status = ""

MOff ==
  /\ args = <<>>
  /\ contexts = <<>>
  /\ master_file = NewTranslationFile
  /\ existing_translation = NewTranslationFile
  /\ master_entries_by_value = <<>>
  /\ shortcuts = <<>>
  /\ po_file = NewTranslationFile
  /\ shortcuts_by_key = <<>>
  /\ outfile = <<>>
  /\ it = 0
  /\ pc = "off"
  /\ exit_status = ""

\* lines 300-350: the files are read and the master entries grouped
MLoad ==
  /\ pc = "load"
  /\ IF \E i \in DOMAIN args.context : BadContextLine(args.context[i])
     THEN /\ pc' = "raised"
          /\ exit_status' = "ValueError"
          /\ UNCHANGED <<contexts, master_file, existing_translation,
                         master_entries_by_value, shortcuts, po_file>>
     ELSE LET ctx    == read_context_file(args.context, <<>>)
              master == ReadMasters(NewTranslationFile, args.master, ctx,
                                    args.strip_shortcuts)
          IN  /\ contexts' = ctx
              /\ master_file' = master
              /\ existing_translation' =
                    read_from_zusi(NewTranslationFile, args.translation, <<>>, FALSE)
              /\ shortcuts' = ReadGroups(args.shortcut_groups, {}, <<>>)
              /\ po_file' = IF args.mode = "po2zusi"
                            THEN read_from_po(NewTranslationFile, args.po_file)
                            ELSE NewTranslationFile
              /\ master_entries_by_value' = GroupByValue(master)
              /\ pc' = "loaded"
              /\ UNCHANGED exit_status
  /\ UNCHANGED <<args, outfile, it, shortcuts_by_key>>
  /\ UNCHANGED NotMain

\* lines 352-354: the entry for the empty string is put first
MInsertHeader ==
  /\ pc = "loaded"
  /\ args.mode \in {"zusi2pot", "zusi2po"}
  /\ master_file' = InsertEmptyEntryFirst(master_file)
  /\ it' = 1
  /\ pc' = "export"
  /\ UNCHANGED <<args, contexts, existing_translation, master_entries_by_value,
                 outfile, shortcuts, po_file, shortcuts_by_key, exit_status>>
  /\ UNCHANGED NotMain

\* lines 357-400: one iteration of the loop over the master file
MExportEntry ==
  /\ pc = "export"
  /\ it <= Len(master_file.entries_in_order)
  /\ LET master_entry == InOrder(master_file)[it]
         key          == <<master_entry.value, master_entry.context>>
     IN  IF key \notin DOMAIN master_entries_by_value
         THEN \* continue
              /\ it' = it + 1
              /\ UNCHANGED <<master_entries_by_value, outfile, pc, exit_status>>
         ELSE LET all_entries == master_entries_by_value[key]
                  head        == BlockHead(master_file, all_entries, master_entry)
                  possible_translation_entries ==
                     PossibleTranslationEntries(existing_translation, master_file,
                                                all_entries)
                  \* existing_translation[key] of each kept key; none is kept
                  possible_translations ==
                     {existing_translation.objs[r].value :
                        r \in UNION {EntriesOf(existing_translation, master_file.objs[e].key) :
                                       e \in Range(possible_translation_entries)}}
              IN  /\ master_entries_by_value' =
                        IF all_entries = <<>> THEN master_entries_by_value
                        ELSE DeleteKey(master_entries_by_value, key)
                  /\ IF all_entries = <<>>
                       THEN /\ pc' = "raised"
                            /\ exit_status' = "Exception"
                            /\ UNCHANGED <<outfile, it>>
                     ELSE IF master_entry.context = FalseContext
                       THEN \* len(False)
                            /\ outfile' = outfile \o
                                 [i \in DOMAIN all_entries |->
                                    SrcLine(master_file.objs[all_entries[i]].key) \o linesep]
                            /\ pc' = "raised"
                            /\ exit_status' = "TypeError"
                            /\ UNCHANGED it
                     ELSE IF args.mode = "zusi2pot"
                       THEN /\ outfile' = outfile \o head
                                 \o <<MsgstrLine(<<>>) \o linesep>>
                                 \o BlockTail(master_entry)
                            /\ it' = it + 1
                            /\ UNCHANGED <<pc, exit_status>>
                     ELSE IF Cardinality(possible_translations) = 1
                       THEN /\ outfile' = outfile \o head
                                 \o <<MsgstrLine(CHOOSE t \in possible_translations : TRUE)
                                        \o linesep>>
                                 \o BlockTail(master_entry)
                            /\ it' = it + 1
                            /\ UNCHANGED <<pc, exit_status>>
                     ELSE \* the report is printed, then sys.exit(3)
                          /\ outfile' = outfile \o head
                          /\ pc' = "exit"
                          /\ exit_status' = "3"
                          /\ UNCHANGED it
  /\ UNCHANGED <<args, contexts, master_file, existing_translation, shortcuts,
                 po_file, shortcuts_by_key>>
  /\ UNCHANGED NotMain

\* the loop over the master file is exhausted: main returns
MExportDone ==
  /\ pc = "export"
  /\ it > Len(master_file.entries_in_order)
  /\ pc' = "done"
  /\ UNCHANGED <<args, contexts, master_file, existing_translation,
                 master_entries_by_value, outfile, it, shortcuts, po_file,
                 shortcuts_by_key, exit_status>>
  /\ UNCHANGED NotMain

\* line 403: the shortcuts are generated
MGenerateShortcuts ==
  /\ pc = "loaded"
  /\ args.mode = "po2zusi"
  /\ \E o \in generate_shortcuts(shortcuts, master_file, po_file, existing_translation) :
        IF o.kind = "return"
        THEN /\ shortcuts_by_key' = o.result[1]
             /\ it' = 1
             /\ pc' = "import"
             /\ UNCHANGED exit_status
        ELSE /\ pc' = "raised"
             /\ exit_status' = o.kind
             /\ UNCHANGED <<shortcuts_by_key, it>>
  /\ UNCHANGED <<args, contexts, master_file, existing_translation,
                 master_entries_by_value, outfile, shortcuts, po_file>>
  /\ UNCHANGED NotMain

\* lines 405-415: one iteration of the loop over the master file
MWriteRecord ==
  /\ pc = "import"
  /\ it <= Len(master_file.entries_in_order)
  /\ LET master_entry == InOrder(master_file)[it]
     IN  \E translated \in get_translated_entry(po_file, master_entry) :
           IF translated.kind # "return"
           THEN /\ pc' = "raised"
                /\ exit_status' = translated.kind
                /\ UNCHANGED <<outfile, it>>
           ELSE LET value == translated.result[1].value
                    marked == MarkedValue(value, shortcuts_by_key, master_entry.key)
                IN  IF marked.kind # "return"
                    THEN /\ pc' = "raised"
                         /\ exit_status' = marked.kind
                         /\ UNCHANGED <<outfile, it>>
                    ELSE /\ outfile' = Append(outfile,
                                               ZusiRecord(master_entry, marked.result[1]))
                         /\ it' = it + 1
                         /\ UNCHANGED <<pc, exit_status>>
  /\ UNCHANGED <<args, contexts, master_file, existing_translation,
                 master_entries_by_value, shortcuts, po_file, shortcuts_by_key>>
  /\ UNCHANGED NotMain

\* the loop over the master file is exhausted: main returns
MImportDone ==
  /\ pc = "import"
  /\ it > Len(master_file.entries_in_order)
  /\ pc' = "done"
  /\ UNCHANGED <<args, contexts, master_file, existing_translation,
                 master_entries_by_value, outfile, it, shortcuts, po_file,
                 shortcuts_by_key, exit_status>>
  /\ UNCHANGED NotMain

MNext ==
  \/ MLoad
  \/ MInsertHeader
  \/ MExportEntry
  \/ MExportDone
  \/ MGenerateShortcuts
  \/ MWriteRecord
  \/ MImportDone

----------------------------------------------------------------------------
(* Shortcut function harness: the methods of ShortcutGroupFile called on   *)
(* a string of the pool                                                    *)

SInit ==
  /\ s_string \in ShortcutStrings
  /\ s_call = <<>>

\* the harness is in use
SOn == IF s_call = <<>> THEN TRUE ELSE s_call[1].op # "off"

SOff ==
  /\ s_string = <<>>
  /\ s_call = <<[op |-> "off"]>>

\* self.get_shortcut(string)
SGetShortcut ==
  /\ SOn
  /\ s_call' = <<[op |-> "get_shortcut", result |-> get_shortcut(s_string)]>>
  /\ UNCHANGED s_string
  /\ UNCHANGED NotShortcut

\* the entry a candidate row is made of
SEntry(value) == TranslationEntry(KeyA, value, <<>>, <<>>, FALSE, FALSE, 0, 0)

\* generate_shortcuts, lines 256-266: the matrix of two candidates, the
\* first translated as the string; its row for the first is kept
SMatrixEntry ==
  /\ SOn
  /\ \E source_shortcut \in SourceShortcuts, existing_shortcut \in ExistingShortcuts,
        other \in OtherValues :
       LET rows == << [entry |-> SEntry(s_string),
                       source_shortcut |-> source_shortcut,
                       existing_shortcut |-> existing_shortcut],
                      [entry |-> SEntry(other),
                       source_shortcut |-> "b",
                       existing_shortcut |-> None] >>
           matrix == CostMatrix(rows)
       IN  s_call' = <<[op |-> "matrix",
                        source_shortcut |-> source_shortcut,
                        existing_shortcut |-> existing_shortcut,
                        result |-> [c \in LetterSet(rows) |-> matrix[<<1, c>>]]]>>
  /\ UNCHANGED s_string
  /\ UNCHANGED NotShortcut

\* main, lines 407-411, on the string as the translated value of KeyA
SMarkValue ==
  /\ SOn
  /\ \E d \in AssignedShortcuts :
       s_call' = <<[op |-> "mark", shortcuts_by_key |-> d,
                    result |-> MarkedValue(s_string, d, KeyA)]>>
  /\ UNCHANGED s_string
  /\ UNCHANGED NotShortcut

SNext ==
  \/ SGetShortcut
  \/ SMatrixEntry
  \/ SMarkValue

----------------------------------------------------------------------------
(* Repeated runs of generate_shortcuts on the files of an import run       *)

\* main, lines 300-350: the groups and the files that generate_shortcuts
\* is called with in a po2zusi run
GenerateInput(a) ==
  [groups               |-> ReadGroups(a.shortcut_groups, {}, <<>>),
   master_file          |-> ReadMasters(NewTranslationFile, a.master, <<>>,
                                        a.strip_shortcuts),
   translation_file     |-> read_from_po(NewTranslationFile, a.po_file),
   existing_translation |-> read_from_zusi(NewTranslationFile, a.translation,
                                           <<>>, FALSE)]

GInit ==
  /\ g_input \in {<<GenerateInput(a)>> : a \in ImportArgs}
  /\ g_runs = <<>>

GOff ==
  /\ g_input = <<>>
  /\ g_runs = <<>>

\* shortcuts.generate_shortcuts(master_file, po_file, existing_translation),
\* the sets iterated in one of their orders
GGenerateShortcuts ==
  /\ g_input # <<>>
  /\ Len(g_runs) < MaxRuns
  /\ \E orders \in RunOrders(g_input[1].groups, g_input[1].master_file) :
       \E o \in GenerateInOrder(orders, 1, <<>>, g_input[1].master_file,
                                g_input[1].translation_file,
                                g_input[1].existing_translation) :
          g_runs' = Append(g_runs, [orders |-> orders, outcome |-> o])
  /\ UNCHANGED g_input
  /\ UNCHANGED NotGenerate

GNext == GGenerateShortcuts

----------------------------------------------------------------------------
(* Specifications                                                          *)

InitZusi == ZInit /\ POff /\ ROff /\ MOff /\ SOff /\ GOff

SpecZusi == InitZusi /\ [][ZNext]_vars

InitPo == PInit /\ ZOff /\ ROff /\ MOff /\ SOff /\ GOff

SpecPo == InitPo /\ [][PNext]_vars

InitResolver == RInit /\ ZOff /\ POff /\ MOff /\ SOff /\ GOff

SpecResolver == InitResolver /\ [][RNext]_vars

InitMain == MInit /\ ZOff /\ POff /\ ROff /\ SOff /\ GOff

SpecMain == InitMain /\ [][MNext]_vars

InitShortcut == SInit /\ ZOff /\ POff /\ ROff /\ MOff /\ GOff

SpecShortcut == InitShortcut /\ [][SNext]_vars

InitGenerate == GInit /\ ZOff /\ POff /\ ROff /\ MOff /\ SOff

SpecGenerate == InitGenerate /\ [][GNext]_vars

----------------------------------------------------------------------------
(* Claims about the Zusi codec (checked under SpecZusi)                    *)

\* the entry of the i-th parse
ZEntry(i) == zentries[i][1]

\* the i-th parse produced an entry
ZParsed(i) == Len(zentries) >= i /\ zentries[i] # <<>>

\* the raw VALUE of the line being parsed, spaces stripped (zline is the
\* parsed line as long as zpc = "write")
ZRest ==
  LET t == strip(zline, CRLF)
  IN  strip(SliceFrom(t, find(t, SepEq, 0) + Len(SepEq)), {" "})

\* a text with at most one leading and one trailing quote removed
DropOneQuoteEachSide(rest) ==
  LET a == IF LeftQuote(rest) THEN Tail(rest) ELSE rest
  IN  IF RightQuote(rest) THEN SubSeq(a, 1, Len(a) - 1) ELSE a

\* C9: read_from_zusi drops exactly one leading and exactly one trailing
\* quote of the space-stripped value, sets leftquote/rightquote accordingly
\* and keeps every other character (further quotes included); a lone ' is
\* left-quoted only.
C9_DropsExactlyOneQuote ==
  (zpc = "write" /\ Len(zentries) = 1 /\ ~zstrip) =>
     /\ ZEntry(1).value = DropOneQuoteEachSide(ZRest)
     /\ ZEntry(1).leftquote = PyBool(LeftQuote(ZRest))
     /\ ZEntry(1).rightquote = PyBool(RightQuote(ZRest))
     /\ (ZRest = <<"'">> =>
           ZEntry(1).leftquote = PyTrue /\ ZEntry(1).rightquote = PyFalse)

\* the line first parsed had the form KEY = 'VALUE' (a quote on both sides)
ZQuotedLine ==
  /\ ZParsed(1)
  /\ ZEntry(1).leftquote = PyTrue
  /\ ZEntry(1).rightquote = PyTrue

\* the fields the round trip is about
ZFields(e) ==
  <<e.key, e.value, e.leftquote, e.rightquote, e.leftspaces, e.rightspaces>>

\* a text that neither begins nor ends with a space or a quote
ZClean(v) == v = <<>> \/ (v[1] \notin {" ", "'"} /\ v[Len(v)] \notin {" ", "'"})

----------------------------------------------------------------------------
(* Claims about read_from_po (checked under SpecPo)                        *)

IsSrcLine(l) == startswith(strip(l, CRLF), SrcComment)

IsBlank(l) == strip(l, CRLF) = <<>>

\* the number of '#. :src:' lines among the first n lines read
SrcLinesUpTo(n) == Cardinality({j \in 1..n : IsSrcLine(po_f[j])})

\* the line that created the r-th entry object
SrcLineOf(r) ==
  CHOOSE i \in 1..Len(po_f) : IsSrcLine(po_f[i]) /\ SrcLinesUpTo(i) = r

\* the blank lines after line i
BlanksAfter(i) == {j \in (i + 1)..Len(po_f) : IsBlank(po_f[j])}

\* the first line of the block that line i belongs to
BlockStart(i) ==
  LET before == {j \in 1..(i - 1) : IsBlank(po_f[j])}
  IN  IF before = {} THEN 1 ELSE Max(before) + 1

\* the block of line i: up to and including the first blank line after
\* it, or to the last line read when there is none
BlockOf(i) ==
  SubSeq(po_f, BlockStart(i),
         IF BlanksAfter(i) = {} THEN Len(po_f) ELSE Min(BlanksAfter(i)))

\* the r-th entry as its own block alone produces it, the end of the
\* file included or not
EntryFromOwnBlock(r, with_end_of_file) ==
  LET i  == SrcLineOf(r)
      st == PoLines(PoStart(NewTranslationFile), BlockOf(i))
      k  == r - SrcLinesUpTo(BlockStart(i) - 1)
  IN  (IF with_end_of_file THEN PoEndOfFile(st) ELSE st).self.objs[k]

\* after a blank line the parser is idle, with empty accumulators and an
\* empty pending set
IdleAfterBlank ==
  (po_pc = "loop" /\ po_f # <<>> /\ IsBlank(po_f[Len(po_f)])) =>
     po = PoStart(po.self)

\* an entry never has an empty recorded source text: only a block with a
\* non-empty msgid is applied
SourceTextNonEmpty ==
  \A r \in DOMAIN po.self.objs :
     /\ po.self.objs[r].src_value # <<>>
     /\ po.self.objs[r].src_value # NoAttribute => BlanksAfter(SrcLineOf(r)) # {}

\* C6 as stated: an entry receives context, value and source text only
\* from the block closed by the first blank line after its comment line
\* (and only if that block's msgid is non-empty); an entry whose comment is
\* followed by no blank line has received nothing; after a blank line the
\* parser is idle again.
C6_OnlyBlankLineCloses ==
  /\ IdleAfterBlank
  /\ SourceTextNonEmpty
  /\ \A r \in DOMAIN po.self.objs :
        IF BlanksAfter(SrcLineOf(r)) = {}
        THEN po.self.objs[r] = DefaultEntry(po.self.objs[r].key)
        ELSE po.self.objs[r] = EntryFromOwnBlock(r, FALSE)

\* C6 amended: an entry receives data from its own block only, which is
\* closed by the first blank line after its comment line or, when no blank
\* line follows, by the end of the file (context and value, no source
\* text); every entry is what its block alone produces, so nothing leaks
\* from or into another block; after a blank line the parser is idle again.
C6_NoLeakBetweenBlocks ==
  /\ IdleAfterBlank
  /\ SourceTextNonEmpty
  /\ \A r \in DOMAIN po.self.objs :
        po.self.objs[r] = EntryFromOwnBlock(r, po_pc = "returned")

\* C6 witness: a block with a context was closed, and the entry of the
\* following block got its own block's data and no context.
C6_Witness ==
  /\ Len(po_f) = 5
  /\ po_f[1] = MsgctxtLine(TextC) \o <<"\n">>
  /\ IsBlank(po_f[2])
  /\ IsSrcLine(po_f[3])
  /\ IsBlank(po_f[5])
  /\ po.self.objs[1].src_value = TextA
  /\ po.self.objs[1].context = <<>>

\* C7: a file without trailing blank line gives the same TranslationFile
\* (entries, order, context, value, recorded source text) as the same file
\* with one blank line appended.
C7_FlushIdentical ==
  (po_pc = "returned" /\ (po_f = <<>> \/ ~IsBlank(po_f[Len(po_f)]))) =>
     po.self = read_from_po(NewTranslationFile, Append(po_f, BlankLine))

----------------------------------------------------------------------------
(* Claims about get_translated_entry (checked under SpecResolver)          *)

\* the master entry and the outcome of the last call
RMaster == call_master_entry[1]

ROutcome == outcome[1]

\* the target entries under the stripped master key
RValues == EntriesOf(target, strip(RMaster.key, Whitespace))

\* the source text an entry records: the msgid its PO block gave it, or
\* the source text it was constructed with
RecordedSourceText(e) ==
  IF e.src_value # NoAttribute THEN e.src_value ELSE e.source_value

\* the target entries whose recorded source text is the master value
RSurvivors ==
  {r \in RValues : RecordedSourceText(target.objs[r]) = RMaster.value}

\* a call was made with a non-empty master value whose key has several
\* target entries
RSeveral ==
  /\ outcome # <<>>
  /\ RMaster.value # <<>>
  /\ Cardinality(RValues) >= 2

\* C1: with several target entries under the key, if exactly one of them
\* records a source text equal to the master value, that entry is
\* returned, for a target built by read_from_po or by read_from_zusi.
C1_ResolvedBySourceText ==
  (RSeveral /\ Cardinality(RSurvivors) = 1) =>
     \E r \in RSurvivors : ROutcome = Return(target.objs[r])

\* C2: with several target entries under the key and not exactly one
\* survivor of the source-text filter (none, or several with different
\* values), the call raises the ambiguity TranslationException, whose
\* message lists the value and source text of every candidate.
C2_AmbiguityListsCandidates ==
  (/\ RSeveral
   /\ \/ RSurvivors = {}
      \/ Cardinality({target.objs[r].value : r \in RSurvivors}) >= 2) =>
     /\ ROutcome.kind = "TranslationException"
     /\ ROutcome.what = "Ambiguous translation"
     /\ {ROutcome.candidates[i] : i \in DOMAIN ROutcome.candidates} =
          {<<target.objs[r].value, RecordedSourceText(target.objs[r])>> : r \in RValues}

----------------------------------------------------------------------------
(* Claims about the export runs (zusi2pot, zusi2po)                        *)

RECURSIVE BlocksOf(_, _)
\* the blocks of an output: the writes between two blank lines, the
\* unfinished last block included
BlocksOf(out, current) ==
  IF out = <<>> THEN (IF current = <<>> THEN <<>> ELSE <<current>>)
  ELSE IF Head(out) = linesep
       THEN <<current>> \o BlocksOf(Tail(out), <<>>)
       ELSE BlocksOf(Tail(out), Append(current, Head(out)))

OutBlocks == BlocksOf(outfile, <<>>)

\* the export loop has been entered
Exporting == pc \in {"export", "done", "exit"} /\ args.mode \in {"zusi2pot", "zusi2po"}

\* the entries read from the master file(s), in file order: the loop's
\* list without the entry that was inserted first
MasterRefs == Tail(master_file.entries_in_order)

MasterPair(i) == ValueAndContext(master_file, MasterRefs[i])

MasterPairs == {MasterPair(i) : i \in DOMAIN MasterRefs}

\* the place where a (value, context) pair first occurs in the master
FirstIndex(k) ==
  CHOOSE i \in DOMAIN MasterRefs :
     MasterPair(i) = k /\ \A j \in 1..(i - 1) : MasterPair(j) # k

\* the block is the one of the pair: its msgid is the value, its msgctxt
\* the context (none for the empty context)
IsBlockOf(block, k) ==
  /\ MsgidLine(k[1]) \o linesep \in Range(block)
  /\ IF k[2] = <<>>
     THEN \A i \in DOMAIN block : ~startswith(block[i], KwMsgctxt)
     ELSE MsgctxtLine(k[2]) \o linesep \in Range(block)

\* the '#. :src:' comments of a block, in the order written
CommentsOf(block) == SelectSeq(block, LAMBDA c : startswith(c, SrcComment))

\* the comments of the master entries that have the pair, in master order
CommentsFor(k) ==
  LET members == SelectSeq(MasterRefs,
                           LAMBDA r : ValueAndContext(master_file, r) = k)
  IN  [i \in DOMAIN members |-> SrcLine(master_file.objs[members[i]].key) \o linesep]

C4_HeaderBlockFirst ==
  (pc = "done" /\ args.mode \in {"zusi2pot", "zusi2po"}) =>
    /\ Len(OutBlocks) >= 1
    /\ MsgidLine(<<>>) \o linesep \in Range(OutBlocks[1])
    /\ \E i \in DOMAIN OutBlocks[1] :
          /\ startswith(OutBlocks[1][i], KwMsgstr)
          /\ i + 1 \in DOMAIN OutBlocks[1]
          /\ OutBlocks[1][i + 1] = ContentTypeLine \o linesep

\* the master entries of the block the loop is at
CurrentMembers ==
  LET k == ValueAndContext(master_file, master_file.entries_in_order[it])
  IN  SelectSeq(MasterRefs, LAMBDA r : ValueAndContext(master_file, r) = k)

\* the values the existing translation file has for the keys of the
\* block the loop is at
CurrentExistingValues ==
  {existing_translation.objs[t].value :
     t \in UNION {EntriesOf(existing_translation, master_file.objs[r].key) :
                    r \in Range(CurrentMembers)}}

\* C5: a zusi2po run stops with exit status 3 only at a block whose
\* member keys have more than one distinct value in the existing
\* translation file; at a block whose keys have exactly one value the
\* run goes on.
C5_Exit3OnlyWhenSeveralValues ==
  (pc = "exit" /\ exit_status = "3") => Cardinality(CurrentExistingValues) > 1

----------------------------------------------------------------------------
(* Claims about the import run (po2zusi)                                   *)

\* the value with one marker put before an occurrence of the letter the
\* key is assigned, or the value itself when the key is assigned none
MarkedValues(value, key) ==
  IF key \in DOMAIN shortcuts_by_key
  THEN {SubSeq(value, 1, p - 1) \o <<"&">> \o SubSeq(value, p, Len(value)) :
          p \in {q \in DOMAIN value : LowerChar(value[q]) = shortcuts_by_key[key]}}
  ELSE {value}

\* the record of a master entry for a value: the key, " = ", the leading
\* spaces for a Streckenvorschau key only, the value, the line end
RecordOf(m, value) ==
  m.key \o <<" ", "=", " ">>
    \o (IF contains(m.key, Streckenvorschau) THEN Spaces(m.leftspaces) ELSE <<>>)
    \o value \o <<"\r", "\n">>

\* C8: a po2zusi run that has completed has written one record for each
\* master entry, in master order: the key, " = ", the resolved
\* translation (with the marker before the assigned letter when the key
\* is assigned one) and \r\n, with no quote and no trailing space added
\* and with the entry's leading spaces for a Streckenvorschau key only.
C8_OneRecordPerMasterEntry ==
  (pc = "done" /\ args.mode = "po2zusi") =>
    /\ Len(outfile) = Len(master_file.entries_in_order)
    /\ \A i \in DOMAIN outfile :
          LET m == InOrder(master_file)[i]
          IN  \E t \in Returns(get_translated_entry(po_file, m)) :
                 \E v \in MarkedValues(t.result[1].value, m.key) :
                    outfile[i] = RecordOf(m, v)

\* a completed run over a Streckenvorschau entry with leading spaces and
\* a quoted entry with leading and trailing spaces that is assigned a
\* shortcut
C8_Witness ==
  /\ pc = "done"
  /\ args.mode = "po2zusi"
  /\ Len(outfile) = 2
  /\ \E i \in DOMAIN outfile :
        LET m == InOrder(master_file)[i]
        IN  contains(m.key, Streckenvorschau) /\ m.leftspaces > 0
  /\ \E i \in DOMAIN outfile :
        LET m == InOrder(master_file)[i]
        IN  /\ Truthy(m.leftquote) /\ Truthy(m.rightquote)
            /\ m.leftspaces > 0 /\ m.rightspaces > 0
            /\ m.key \in DOMAIN shortcuts_by_key

----------------------------------------------------------------------------
(* Claims about the methods of ShortcutGroupFile (checked under            *)
(* SpecShortcut)                                                           *)

\* the last call was of the method
SCalled(op) == s_call # <<>> /\ s_call[1].op = op

SResult == s_call[1].result

RECURSIVE MarkerAfterPairs(_, _)
\* the character after the first '&' at or after place i that is not part
\* of a '&&' pair, pairs being skipped as a whole; None when there is none
MarkerAfterPairs(string, i) ==
  IF i > Len(string) THEN None
  ELSE IF string[i] # "&" THEN MarkerAfterPairs(string, i + 1)
  ELSE IF i = Len(string) THEN None
  ELSE IF string[i + 1] = "&" THEN MarkerAfterPairs(string, i + 2)
  ELSE LowerChar(string[i + 1])

\* C11: get_shortcut skips a '&&' pair as a whole: it returns None for a
\* string whose every '&' belongs to a pair, and otherwise the lowercased
\* character after the first '&' outside a pair, never the character
\* that follows a pair.
C11_PairsAreSkipped ==
  SCalled("get_shortcut") => SResult = MarkerAfterPairs(s_string, 1)

----------------------------------------------------------------------------
(* Claims about the cost matrix (checked under SpecShortcut)               *)

\* the positions at which the letter occurs in the value, whatever its case
LetterPositions(value, letter) == Occurrences(lower(value), letter)

\* the least weight of the letter's occurrences, the weight of a position
\* taken on the value in its casing
WeightOnOriginalCasing(value, letter, source_shortcut, existing_shortcut) ==
  IF LetterPositions(value, letter) = {} THEN 9999
  ELSE Min({get_shortcut_weight(value, pos, source_shortcut, existing_shortcut) :
              pos \in LetterPositions(value, letter)})

\* C18: the matrix entry of a candidate and a letter is the least, over the
\* positions at which the letter occurs, of the weight of the position
\* taken on the translated value in its casing (500 and 700 for an
\* uppercase character, 600 and 800 for a lowercase one), and 9999 for a
\* letter that does not occur.
C18_MatrixEntryUsesCasing ==
  SCalled("matrix") =>
    \A c \in DOMAIN SResult :
       SResult[c] = WeightOnOriginalCasing(s_string, c, s_call[1].source_shortcut,
                                           s_call[1].existing_shortcut)

----------------------------------------------------------------------------
(* Claims about add_shortcut and the written value (checked under         *)
(* SpecShortcut)                                                           *)

\* the weight add_shortcut gives a position: no source or existing shortcut
PlainWeight(string, pos) == get_shortcut_weight(string, pos, "", "")

\* the string with '&' put in before the position
MarkedAt(string, pos) == SubSeq(string, 1, pos) \o <<"&">> \o SliceFrom(string, pos)

\* the string without its character at the position
WithoutCharAt(string, pos) == SubSeq(string, 1, pos) \o SliceFrom(string, pos + 1)

\* the occurrences of the letter that are of the least weight
BestPositions(string, letter) ==
  {p \in LetterPositions(string, letter) :
     \A q \in LetterPositions(string, letter) : PlainWeight(string, p) <= PlainWeight(string, q)}

\* C19: a value whose key has an assigned letter that occurs in it, in
\* either case, is written with one '&' put in right before the earliest
\* of the letter's occurrences of least weight, and is the translated
\* value again when that '&' is deleted; a value whose key has no assigned
\* letter is written unchanged.
C19_MarkerBeforeBestOccurrence ==
  SCalled("mark") =>
    LET d == s_call[1].shortcuts_by_key
    IN  IF KeyA \notin DOMAIN d THEN SResult = Return(s_string)
        ELSE BestPositions(s_string, d[KeyA]) # {} =>
               LET p == Min(BestPositions(s_string, d[KeyA]))
                   marked == SResult.result[1]
               IN  /\ SResult.kind = "return"
                   /\ marked = MarkedAt(s_string, p)
                   /\ Len(marked) = Len(s_string) + 1
                   /\ marked[p + 1] = "&"
                   /\ LowerChar(marked[p + 2]) = d[KeyA]
                   /\ WithoutCharAt(marked, p) = s_string

\* a letter was put before an occurrence that is not the letter's first,
\* and is the earlier of two of the least weight
C19_Witness ==
  /\ SCalled("mark")
  /\ KeyA \in DOMAIN s_call[1].shortcuts_by_key
  /\ LET best == BestPositions(s_string, s_call[1].shortcuts_by_key[KeyA])
     IN  /\ Cardinality(best) >= 2
         /\ Min(best) > Min(LetterPositions(s_string, s_call[1].shortcuts_by_key[KeyA]))
         /\ SResult = Return(MarkedAt(s_string, Min(best)))

----------------------------------------------------------------------------
(* Claims about generate_shortcuts (checked under SpecMain)                *)

\* generate_shortcuts has returned normally in a po2zusi run
Generated == pc \in {"import", "done", "raised"} /\ args.mode = "po2zusi" /\ it >= 1

\* the translated entries the candidates of a group can resolve to
CandidateEntries(group) ==
  {t.result[1] : t \in UNION {Returns(get_translated_entry(po_file, master_file.objs[r])) :
                                r \in GroupCandidates(group, master_file)}}

C13_EveryCandidateHasLetter ==
  Generated =>
    \A i \in DOMAIN shortcuts : \A r \in GroupCandidates(shortcuts[i], master_file) :
       \E t \in Returns(get_translated_entry(po_file, master_file.objs[r])) :
          t.result[1].key \in DOMAIN shortcuts_by_key

\* the rows the candidates of a group can have
GroupRows(group) ==
  UNION {CandidateRows(master_file.objs[r], po_file, existing_translation) :
           r \in GroupCandidates(group, master_file)}

\* the prior translation of the group gives every candidate a shortcut
\* letter, different ones to different keys, and each candidate's letter
\* occurs in its lowercased translated value
StableGroup(group) ==
  /\ GroupCandidates(group, master_file) # {}
  /\ \A row \in GroupRows(group) :
        /\ row.existing_shortcut # None
        /\ row.existing_shortcut \in Range(lower(row.entry.value))
  /\ \A row1, row2 \in GroupRows(group) :
        row1.entry.key # row2.entry.key => row1.existing_shortcut # row2.existing_shortcut

\* C14: when generate_shortcuts has returned normally, every key of a
\* group whose prior translation is conflict-free and still feasible has
\* its existing shortcut letter, whatever the other terms of the cost are.
C14_ExistingShortcutKept ==
  Generated =>
    \A i \in DOMAIN shortcuts :
       StableGroup(shortcuts[i]) =>
          \A row \in GroupRows(shortcuts[i]) :
             /\ row.entry.key \in DOMAIN shortcuts_by_key
             /\ shortcuts_by_key[row.entry.key] = row.existing_shortcut

----------------------------------------------------------------------------
(* Claims about TranslationFile                                            *)

\* an entry object is in entries_in_order exactly if it is in the set
\* entries[key] of its key
Consistent(file) ==
  \A r \in DOMAIN file.objs :
     (r \in Range(file.entries_in_order)) <=> (r \in EntriesOf(file, file.objs[r].key))

\* C15 (checked under SpecMain): in every state of a run, in every mode,
\* each TranslationFile is consistent, entries being added to either
\* structure by append only.
C15_FilesConsistent ==
  /\ Consistent(master_file)
  /\ Consistent(existing_translation)
  /\ Consistent(po_file)

\* C16 (checked under SpecResolver): entries[key] holds no two entries
\* with the same fields: of structurally identical entries appended to a
\* file one is left in entries[key].
C16_OnePerFieldTuple ==
  \A key \in DOMAIN target.entries : \A r1, r2 \in target.entries[key] :
     target.objs[r1] = target.objs[r2] => r1 = r2

----------------------------------------------------------------------------
(* Claims about the lookup of an empty master value (checked under         *)
(* SpecResolver)                                                           *)

\* a call was made with an empty master value
REmptyCall == outcome # <<>> /\ RMaster.value = <<>>

\* C17: for a master entry with an empty value the lookup returns the
\* fixed empty entry, of empty key and empty value, and raises nothing,
\* whatever the target file holds for the key.
C17_EmptyValueNeedsNoLookup ==
  REmptyCall =>
    /\ ROutcome = Return(get_empty_string_entry)
    /\ ROutcome.result[1].key = <<>>
    /\ ROutcome.result[1].value = <<>>

\* a call with an empty master value on a target that has several
\* entries for the key, none of which the lookup could choose
C17_Witness ==
  /\ REmptyCall
  /\ Cardinality(RValues) >= 2
  /\ \A o \in get_translated_entry_AlwaysLooksUp(target, RMaster) : o.kind # "return"

----------------------------------------------------------------------------
(* Claims about repeated runs of generate_shortcuts (checked under         *)
(* SpecGenerate)                                                           *)

\* the two lookups give every candidate of every group one row only, so
\* that runs differ in the order of the candidates alone
RowsDetermined ==
  /\ g_input # <<>>
  /\ \A g \in DOMAIN g_input[1].groups :
       \A r \in GroupCandidates(g_input[1].groups[g], g_input[1].master_file) :
          /\ Cardinality(CandidateRows(g_input[1].master_file.objs[r],
                                       g_input[1].translation_file,
                                       g_input[1].existing_translation)) = 1
          /\ CandidateRaises(g_input[1].master_file.objs[r],
                             g_input[1].translation_file,
                             g_input[1].existing_translation) = {}

\* C20: two runs of generate_shortcuts on the same files, with a solver
\* that gives the same matching for the same matrix, return the same map
\* from keys to letters, whatever the orders in which the keys of a group
\* and the entries of a key were met.
C20_SameMapInEveryOrder ==
  RowsDetermined =>
    \A i, j \in DOMAIN g_runs : g_runs[i].outcome = g_runs[j].outcome

----------------------------------------------------------------------------
(* Claims about the write loop of the import run (checked under SpecMain)  *)

\* the values the translation of a master entry can resolve to
ResolvedValues(master_entry) ==
  {t.result[1].value : t \in Returns(get_translated_entry(po_file, master_entry))}

\* C21: once generate_shortcuts has returned, the letter of every master
\* entry whose key has one occurs in the lowercased resolved translation
\* of that entry, and add_shortcut raises no exception in the write loop,
\* also for a master file with one key under several source texts.
C21_MarkerInsertionNeverFails ==
  Generated =>
    /\ \A r \in Range(master_file.entries_in_order) :
          master_file.objs[r].key \in DOMAIN shortcuts_by_key =>
             \A value \in ResolvedValues(master_file.objs[r]) :
                shortcuts_by_key[master_file.objs[r].key] \in Range(lower(value))
    /\ exit_status # "Exception"

====
